---------------------------- MODULE Spec2Model ----------------------------
(***************************************************************************)
(* Model of the ron3ia-api payment-gated report services.                  *)
(*                                                                         *)
(* The repository holds three FastAPI applications:                        *)
(*   "store" : src/backend/main.py lines 1-582, reports kept in a          *)
(*             ReportStore (MemoryReportStore or BigQueryReportStore),     *)
(*             webhook at POST /stripe-webhook;                            *)
(*   "file"  : src/backend/main.py lines 583-778, payment status kept in   *)
(*             data/reports_status.json, webhook at POST /stripe/webhook;  *)
(*   "plain" : src/main.py, a stateless webhook at POST /stripe/webhook.   *)
(* A process serves exactly one of them; svc records which one.           *)
(*                                                                         *)
(* Python dicts are functions whose DOMAIN is the set of keys.  A value    *)
(* that may be None is an option set: {} is None, {v} is the value v.      *)
(***************************************************************************)
EXTENDS Integers, FiniteSets, Sequences, TLC

\* ------------------------------------------------------------------ bounds
\* Wall-clock readings range over 0..MaxClock.
MaxClock == 1

ReportIds == {"r1", "r2"}
SessionIds == {"s1", "s2"}
EventIds == {"e1", "e2"}
Emails == {"a@x.com"}
Times == 0..MaxClock
\* The ids uuid.uuid4() returns during a run: r2 is never a report of the
\* store service, only an id a request may name.
Uuids == {"r1"}

VARIABLES
    svc,         \* which application this process serves
    env,         \* the environment-driven configuration, read once at import
    uuids,       \* store service: the ids uuid.uuid4() has yet to return
    STORE,       \* store service: report_id -> report dict
    statusFile,  \* file service: content of data/reports_status.json
    mailed,      \* file service: reports send_report_email has returned for
    last,        \* the last request handled and its response
    backend,     \* what _init_store returned: "bigquery", "memory" or "raised"
    table,       \* the rows of the BigQuery table, report_id -> row
    workers      \* file service run by several processes: each one's position

vars == <<svc, env, uuids, STORE, statusFile, mailed, last, backend, table, workers>>

\* What a request handled in one piece by one process leaves alone.
others == <<backend, table, workers>>

\* ------------------------------------------------------------ Python values
None == {}
Some(v) == {v}
Val(o) == CHOOSE v \in o : TRUE

\* dict.update(d): keys of d overwrite, every other key keeps its value
DictUpdate(rec, d) ==
    [k \in (DOMAIN rec) \cup (DOMAIN d) |-> IF k \in DOMAIN d THEN d[k] ELSE rec[k]]

\* dict.get(k): None when the key is absent
DictGet(rec, k) == IF k \in DOMAIN rec THEN Some(rec[k]) ELSE None

\* d[k] = v on a dict of dicts
DictPut(db, k, v) == [x \in (DOMAIN db) \cup {k} |-> IF x = k THEN v ELSE db[x]]

EmptyDict == [k \in {} |-> None]

\* ------------------------------------------------------------ configuration
\* Each option is TRUE when the environment variable is set to a non-empty
\* string.  webhook_secret is STRIPE_WEBHOOK_SECRET of the store and file
\* services and endpoint_secret of the plain service.
EnvOptions == {"STRIPE_WEBHOOK_SECRET", "STRIPE_SECRET_KEY", "STRIPE_PRICE_ID",
               "STRIPE_REPAIR_PRICE_ID", "FRONTEND_URL"}

\* env is the set of options that are set; at most one option is left unset.
Configs == {EnvOptions} \cup {EnvOptions \ {o} : o \in EnvOptions}

STRIPE_WEBHOOK_SECRET == "STRIPE_WEBHOOK_SECRET" \in env
STRIPE_SECRET_KEY == "STRIPE_SECRET_KEY" \in env
STRIPE_PRICE_ID == "STRIPE_PRICE_ID" \in env
STRIPE_REPAIR_PRICE_ID == "STRIPE_REPAIR_PRICE_ID" \in env
FRONTEND_URL == "FRONTEND_URL" \in env
endpoint_secret == "STRIPE_WEBHOOK_SECRET" \in env

\* ------------------------------------------------------------------ events
\* What stripe.Webhook.construct_event is handed: the signature header is
\* absent, present but not verifying, or verifying against the raw body.
Signatures == {"absent", "invalid", "valid"}

Completed == "checkout.session.completed"
EventTypes == {Completed, "payment_intent.succeeded"}

\* data.object of an event.  rid is metadata.report_id (store service) or
\* metadata.reportId (file service); ptype is metadata.type; email is
\* metadata.user_email (store service) or customer_details.email /
\* customer_email (file service).
SessionObjects ==
    [id : SessionIds,
     payment_status : {"paid", "unpaid"},
     rid : {None} \cup {Some(r) : r \in ReportIds},
     ptype : {None, Some("verdict"), Some("repair")},
     email : {None} \cup {Some(e) : e \in Emails}]

\* A parsed event: type and data.object may each be missing.
Events ==
    [id : EventIds,
     type : {None} \cup {Some(t) : t \in EventTypes},
     object : {None} \cup {Some(o) : o \in SessionObjects}]

\* The store service reads neither event.id nor payment_status, the file
\* service does not read metadata.type, the plain service reads only the
\* type: the fields a handler does not read are held fixed.
StoreEvents ==
    {ev \in Events :
        /\ ev.id = "e1"
        /\ ev.type # Some(Completed) => ev.object = None
        /\ ev.object # None =>
              /\ Val(ev.object).payment_status = "paid"
              /\ Val(ev.object).ptype # Some("verdict")}
\* A checkout session has one checkout.session.completed event.
EventOf(session_id) == IF session_id = "s1" THEN "e1" ELSE "e2"
FileEvents ==
    {ev \in Events :
        /\ ev.type # Some(Completed) => ev.object = None
        /\ ev.object # None =>
              /\ Val(ev.object).ptype = None
              /\ ev.id = EventOf(Val(ev.object).id)}
PlainEvents ==
    {ev \in StoreEvents : ev.object = None}

\* Fields of an event as the handlers read them.
event_type(ev) == IF ev.type = None THEN "unknown" ELSE Val(ev.type)
HasObject(ev) == ev.object # None
data_object(ev) == Val(ev.object)
\* (metadata.get(...) or "").strip(): None stands for the empty string
report_id_of(ev) == IF HasObject(ev) THEN data_object(ev).rid ELSE None
user_email_of(ev) == IF HasObject(ev) THEN data_object(ev).email ELSE None
\* (metadata.get("type") or "verdict").strip()
payment_type(ev) ==
    IF HasObject(ev) /\ data_object(ev).ptype # None
    THEN Val(data_object(ev).ptype) ELSE "verdict"

\* ------------------------------------------------------- the request log
\* last is the request just handled: the handler (op), the HTTP status
\* (code), the report id the request names, the signature it carried,
\* whether it repeats the previous webhook delivery, and what the handler
\* did (fx):
\*   "verified"  construct_event returned an event
\*   "completed" the event type was checkout.session.completed
\*   "repair"    the event's metadata type was repair
\*   "changed"   the stored data differ from before the request
\*   "raised"    a store / status-file write raised
\*   "keyerror"  event["type"] or event["data"]["object"] raised KeyError
\*   "readfail"  _read_status could not read or parse the status file
\*   "unpaid"    the session's payment_status was not paid
\*   "retry"     the record read by the idempotency check was paid, not sent
\*   "pdf"       generate_pdf was called
\*   "email"     an email was enqueued (store service) or sent (file service)
\*   "session"   a checkout session was created at the processor
\*   "paid"      the response body shows paid / status unlocked
\*   "full"      the response body carries a non-null full report
NoRequest ==
    [op |-> "none", code |-> 0, rid |-> None, sig |-> "none", replay |-> FALSE, fx |-> {}]

Request(op, code, rid, fx) ==
    [NoRequest EXCEPT !.op = op, !.code = code, !.rid = rid, !.fx = fx]

\* The log entry of a webhook delivery.  The report id is logged for an
\* unverified payload (what it asked for) and for a completed checkout.
Delivery(code, sig, ev, fx) ==
    [op |-> "stripe_webhook", code |-> code, sig |-> sig, replay |-> FALSE,
     rid |-> IF sig # "valid" \/ "completed" \in fx THEN report_id_of(ev) ELSE None,
     fx |-> fx \cup IF "completed" \in fx /\ payment_type(ev) = "repair"
                    THEN {"repair"} ELSE {}]

\* The outcome of a handler: the log entry, the store after it and the
\* reports send_report_email returned for.
Outcome(entry, db, mail) == [last |-> entry, db |-> db, mail |-> mail]

Fx(flags) == {f \in DOMAIN flags : flags[f]}

\* ------------------------------------------------------------- ReportStore
\* create_report: self._db[report_id] = report
create_report(db, report) == DictPut(db, report.report_id, report)

\* A faulty variant of update_report: the record is replaced by the updates.
update_report_replaces(db, report_id, updates) ==
    IF report_id \notin DOMAIN db THEN db
    ELSE [db EXCEPT ![report_id] = updates]

\* update_report: no-op when the id is absent, else a merge of updates
update_report(db, report_id, updates) ==
    IF report_id \notin DOMAIN db THEN db
    ELSE [db EXCEPT ![report_id] = DictUpdate(db[report_id], updates)]

\* report.get("status") or default
StatusOf(report, default) ==
    IF "status" \in DOMAIN report THEN report.status ELSE default

\* ---------------------------------------- store service: POST /stripe-webhook
full_report(report_id, t) == [report_id |-> report_id, generated_at |-> t]

\* A faulty variant of verdict_updates: the update forgets report_full.
verdict_updates_without_full(report_id, session_id, t) ==
    [status |-> "unlocked", paid_at |-> t, stripe_session_id |-> session_id]

\* The updates of a verdict payment and of a repair payment.
verdict_updates(report_id, session_id, t) ==
    [status |-> "unlocked", paid_at |-> t, stripe_session_id |-> session_id,
     report_full |-> full_report(report_id, t)]

repair_updates(report_id, session_id, t) ==
    [repair_status |-> "active", repair_paid_at |-> t,
     repair_stripe_session_id |-> session_id]

\* A faulty variant of on_event: a failure of STORE.update_report is
\* swallowed and the delivery is acknowledged.
on_event_swallows(db, sig, ev, t, write_raises) ==
    IF event_type(ev) # Completed
    THEN Outcome(Delivery(200, sig, ev, {"verified"}), db, {})
    ELSE IF report_id_of(ev) = None
         THEN Outcome(Delivery(200, sig, ev, {"verified", "completed"}), db, {})
    ELSE IF write_raises
         THEN Outcome(Delivery(200, sig, ev, {"verified", "completed", "raised"}), db, {})
    ELSE LET report_id == Val(report_id_of(ev))
             session_id == data_object(ev).id
         IN  IF payment_type(ev) = "repair"
             THEN Outcome(Delivery(200, sig, ev, {"verified", "completed"}),
                          update_report(db, report_id,
                                        repair_updates(report_id, session_id, t)),
                          {})
             ELSE Outcome(Delivery(200, sig, ev,
                                   {"verified", "completed"}
                                   \cup Fx([email |-> user_email_of(ev) # None])),
                          update_report(db, report_id,
                                        verdict_updates(report_id, session_id, t)),
                          {})

\* The handler once construct_event has returned ev.
\* t: the reading of time.time(); write_raises: STORE.update_report raises.
on_event(db, sig, ev, t, write_raises) ==
    IF event_type(ev) # Completed
    THEN Outcome(Delivery(200, sig, ev, {"verified"}), db, {})
    ELSE IF report_id_of(ev) = None
         THEN Outcome(Delivery(200, sig, ev, {"verified", "completed"}), db, {})
    ELSE IF write_raises
         THEN Outcome(Delivery(500, sig, ev, {"verified", "completed", "raised"}), db, {})
    ELSE LET report_id == Val(report_id_of(ev))
             session_id == data_object(ev).id
         IN  IF payment_type(ev) = "repair"
             THEN Outcome(Delivery(200, sig, ev, {"verified", "completed"}),
                          update_report(db, report_id,
                                        repair_updates(report_id, session_id, t)),
                          {})
             ELSE Outcome(Delivery(200, sig, ev,
                                   {"verified", "completed"}
                                   \cup Fx([email |-> user_email_of(ev) # None])),
                          update_report(db, report_id,
                                        verdict_updates(report_id, session_id, t)),
                          {})

\* A faulty variant of stripe_webhook: a signature that does not verify is let through.
stripe_webhook_unverified(db, sig, ev, t, write_raises) ==
    IF ~STRIPE_WEBHOOK_SECRET THEN Outcome(Delivery(503, sig, ev, {}), db, {})
    ELSE IF sig = "absent" THEN Outcome(Delivery(400, sig, ev, {}), db, {})
    ELSE on_event(db, sig, ev, t, write_raises)

\* sig, ev: the signature header and the event the payload parses to
stripe_webhook(db, sig, ev, t, write_raises) ==
    IF ~STRIPE_WEBHOOK_SECRET THEN Outcome(Delivery(503, sig, ev, {}), db, {})
    ELSE IF sig = "absent" THEN Outcome(Delivery(400, sig, ev, {}), db, {})
    ELSE IF sig = "invalid" THEN Outcome(Delivery(400, sig, ev, {}), db, {})
    ELSE on_event(db, sig, ev, t, write_raises)

\* ------------------------------------------------ store service: endpoints
\* valid: dominio, nombre and email are non-empty after strip();
\* report_id: the fresh uuid4; create_raises: STORE.create_report raises.
analyze(db, report_id, valid, create_raises) ==
    IF ~valid THEN Outcome(Request("analyze", 422, None, {}), db, {})
    ELSE IF create_raises
         THEN Outcome(Request("analyze", 500, Some(report_id), {"raised"}), db, {})
    ELSE Outcome(Request("analyze", 200, Some(report_id), {}),
                 create_report(db, [report_id |-> report_id, status |-> "locked"]), {})

run_production(db, report_id, valid, create_raises) ==
    IF ~valid THEN Outcome(Request("run_production", 422, None, {}), db, {})
    ELSE IF create_raises
         THEN Outcome(Request("run_production", 500, Some(report_id), {"raised"}), db, {})
    ELSE Outcome(Request("run_production", 200, Some(report_id), {}),
                 create_report(db, [report_id |-> report_id, status |-> "locked"]), {})

\* A faulty variant of create_checkout_session: the report is looked up
\* before the configuration is checked.
create_checkout_session_report_first(db, report_id, stripe_ok, has_url) ==
    LET Reply(code, fx) ==
            Outcome(Request("create_checkout_session", code, Some(report_id), fx), db, {})
    IN  IF report_id \notin DOMAIN db THEN Reply(404, {})
        ELSE IF StatusOf(db[report_id], "locked") # "locked" THEN Reply(409, {})
        ELSE IF ~STRIPE_SECRET_KEY THEN Reply(503, {})
        ELSE IF ~STRIPE_PRICE_ID THEN Reply(503, {})
        ELSE IF ~FRONTEND_URL THEN Reply(503, {})
        ELSE IF ~stripe_ok THEN Reply(502, {})
        ELSE IF ~has_url THEN Reply(502, {"session"})
        ELSE Reply(200, {"session"})

\* stripe_ok: stripe.checkout.Session.create returns; has_url: session.url is set
create_checkout_session(db, report_id, stripe_ok, has_url) ==
    LET Reply(code, fx) ==
            Outcome(Request("create_checkout_session", code, Some(report_id), fx), db, {})
    IN  IF ~STRIPE_SECRET_KEY THEN Reply(503, {})
        ELSE IF ~STRIPE_PRICE_ID THEN Reply(503, {})
        ELSE IF ~FRONTEND_URL THEN Reply(503, {})
        ELSE IF report_id \notin DOMAIN db THEN Reply(404, {})
        ELSE IF StatusOf(db[report_id], "locked") # "locked" THEN Reply(409, {})
        ELSE IF ~stripe_ok THEN Reply(502, {})
        ELSE IF ~has_url THEN Reply(502, {"session"})
        ELSE Reply(200, {"session"})

\* A faulty variant of create_repair_checkout_session: the report is marked
\* while the checkout is open.
create_repair_checkout_session_marks(db, report_id, stripe_ok, has_url) ==
    LET Reply(code, fx, after) ==
            Outcome(Request("create_repair_checkout_session", code, Some(report_id), fx),
                    after, {})
    IN  IF ~STRIPE_SECRET_KEY THEN Reply(503, {}, db)
        ELSE IF ~STRIPE_REPAIR_PRICE_ID THEN Reply(503, {}, db)
        ELSE IF ~FRONTEND_URL THEN Reply(503, {}, db)
        ELSE IF report_id \notin DOMAIN db THEN Reply(404, {}, db)
        ELSE IF StatusOf(db[report_id], "") # "unlocked" THEN Reply(409, {}, db)
        ELSE IF ~stripe_ok THEN Reply(502, {}, db)
        ELSE IF ~has_url THEN Reply(502, {"session"}, db)
        ELSE Reply(200, {"session"},
                   update_report(db, report_id, [repair_status |-> "pending"]))

create_repair_checkout_session(db, report_id, stripe_ok, has_url) ==
    LET Reply(code, fx) ==
            Outcome(Request("create_repair_checkout_session", code, Some(report_id), fx),
                    db, {})
    IN  IF ~STRIPE_SECRET_KEY THEN Reply(503, {})
        ELSE IF ~STRIPE_REPAIR_PRICE_ID THEN Reply(503, {})
        ELSE IF ~FRONTEND_URL THEN Reply(503, {})
        ELSE IF report_id \notin DOMAIN db THEN Reply(404, {})
        ELSE IF StatusOf(db[report_id], "") # "unlocked" THEN Reply(409, {})
        ELSE IF ~stripe_ok THEN Reply(502, {})
        ELSE IF ~has_url THEN Reply(502, {"session"})
        ELSE Reply(200, {"session"})

\* GET /report-status/{report_id}: full is shown only when status = unlocked
report_status(db, report_id) ==
    IF report_id \notin DOMAIN db
    THEN Outcome(Request("report_status", 404, Some(report_id), {}), db, {})
    ELSE LET report == db[report_id]
             status == StatusOf(report, "locked")
         IN  Outcome(Request("report_status", 200, Some(report_id),
                        Fx([paid |-> status = "unlocked",
                            full |-> status = "unlocked" /\ "report_full" \in DOMAIN report])),
                     db, {})

\* A faulty variant of get_report: paid is decided by comparing status with "paid".
get_report_status_paid(db, report_id) ==
    IF report_id \notin DOMAIN db
    THEN Outcome(Request("get_report", 404, Some(report_id), {}), db, {})
    ELSE LET report == db[report_id]
             unlocked == "status" \in DOMAIN report /\ report.status = "paid"
         IN  Outcome(Request("get_report", 200, Some(report_id),
                        Fx([paid |-> unlocked,
                            full |-> unlocked /\ "report_full" \in DOMAIN report])),
                     db, {})

\* GET /report/{report_id}: the public projection
get_report(db, report_id) ==
    IF report_id \notin DOMAIN db
    THEN Outcome(Request("get_report", 404, Some(report_id), {}), db, {})
    ELSE LET report == db[report_id]
             unlocked == "status" \in DOMAIN report /\ report.status = "unlocked"
         IN  Outcome(Request("get_report", 200, Some(report_id),
                        Fx([paid |-> unlocked,
                            full |-> unlocked /\ "report_full" \in DOMAIN report])),
                     db, {})

\* --------------------------------------------- file service: status file
\* _read_status: {} when the file is missing or cannot be read or parsed
_read_status(file, read_fails) == IF read_fails THEN EmptyDict ELSE file

\* A read of the status file can fail only when the file exists.
CanFail(file, f) == (f.read1 \/ f.read2) => file # EmptyDict

\* status.get(report_id, {})
RecordOf(status, report_id) ==
    IF report_id \in DOMAIN status THEN status[report_id] ELSE EmptyDict

\* record.get("sent")
Sent(record) == "sent" \in DOMAIN record /\ record.sent
Paid(record) == "paid" \in DOMAIN record /\ record.paid

\* What can go wrong inside one delivery: the two reads of the status file,
\* its two writes, generate_pdf and send_report_email.
Faults ==
    [read1 : BOOLEAN, write1 : BOOLEAN, pdf : BOOLEAN, email : BOOLEAN,
     read2 : BOOLEAN, write2 : BOOLEAN]

\* A fault is named only for a step the delivery can get to.
Reachable(f) ==
    /\ f.write1 => ~(f.pdf \/ f.email \/ f.read2 \/ f.write2)
    /\ f.pdf => ~(f.email \/ f.read2 \/ f.write2)
    /\ f.email => ~(f.read2 \/ f.write2)

NoFault ==
    [read1 |-> FALSE, write1 |-> FALSE, pdf |-> FALSE, email |-> FALSE,
     read2 |-> FALSE, write2 |-> FALSE]

FaultCases == {f \in Faults : Reachable(f)}

\* ---------------------------------------- file service: POST /stripe/webhook
\* What a delivery hands back: the status code, what it did, the status
\* file it leaves and the reports send_report_email returned for.
Result(code, fx, file, mail) == [code |-> code, fx |-> fx, db |-> file, mail |-> mail]

\* "Mark paid": record.update({...}); status[report_id] = record
mark_paid(status, report_id, email, session_id, event_id, t) ==
    DictPut(status, report_id,
            DictUpdate(RecordOf(status, report_id),
                       [paid |-> TRUE, sent |-> FALSE, email |-> email,
                        stripe_session_id |-> session_id,
                        last_event_id |-> event_id, updated_at |-> t]))

\* "Mark sent": record.update({"sent": True, "sent_at": ...})
mark_sent(status, report_id, t) ==
    DictPut(status, report_id,
            DictUpdate(RecordOf(status, report_id), [sent |-> TRUE, sent_at |-> t]))

\* Generate PDF, send email, mark sent: the steps after "mark paid" was
\* written.  paid is the status file as "mark paid" left it.
deliver(paid, report_id, t, f) ==
    IF f.pdf THEN Result(200, {"pdf"}, paid, {})
    ELSE IF f.email THEN Result(200, {"pdf"}, paid, {})
    ELSE IF f.write2 THEN Result(500, {"pdf", "email", "raised"}, paid, {report_id})
    ELSE Result(200, {"pdf", "email"} \cup Fx([readfail |-> f.read2]),
                mark_sent(_read_status(paid, f.read2), report_id, t), {report_id})

\* A faulty variant of process_paid: the check also stops a delivery for a
\* record that is paid.
process_paid_once(file, report_id, email, session_id, event_id, t, f) ==
    LET status == _read_status(file, f.read1)
        record == RecordOf(status, report_id)
        read == Fx([readfail |-> f.read1, retry |-> Paid(record) /\ ~Sent(record)])
        rest == deliver(mark_paid(status, report_id, email, session_id, event_id, t),
                        report_id, t, f)
    IN  IF Sent(record) \/ Paid(record) THEN Result(200, read, file, {})
        ELSE IF f.write1 THEN Result(500, read \cup {"raised"}, file, {})
        ELSE [rest EXCEPT !.fx = @ \cup read]

\* The idempotency check and "mark paid", then deliver.
\* t: the reading of datetime.now() during the request
process_paid(file, report_id, email, session_id, event_id, t, f) ==
    LET status == _read_status(file, f.read1)
        record == RecordOf(status, report_id)
        read == Fx([readfail |-> f.read1, retry |-> Paid(record) /\ ~Sent(record)])
        rest == deliver(mark_paid(status, report_id, email, session_id, event_id, t),
                        report_id, t, f)
    IN  IF Sent(RecordOf(status, report_id)) THEN Result(200, read, file, {})
        ELSE IF f.write1 THEN Result(500, read \cup {"raised"}, file, {})
        ELSE [rest EXCEPT !.fx = @ \cup read]

\* A faulty variant of file_stripe_webhook: the type of the event is not
\* compared with checkout.session.completed.
file_stripe_webhook_any_type(file, sig, ev, t, f) ==
    IF sig # "valid" THEN Outcome(Delivery(400, sig, ev, {}), file, {})
    ELSE IF ev.type = None
         THEN Outcome(Delivery(500, sig, ev, {"verified", "keyerror"}), file, {})
    ELSE IF ~HasObject(ev)
         THEN Outcome(Delivery(200, sig, ev, {"verified", "pdf", "email"}), file, {})
    ELSE IF data_object(ev).payment_status # "paid"
         THEN Outcome(Delivery(200, sig, ev, {"verified", "completed", "unpaid"}), file, {})
    ELSE IF report_id_of(ev) = None \/ user_email_of(ev) = None
         THEN Outcome(Delivery(200, sig, ev, {"verified", "completed"}), file, {})
    ELSE LET r == process_paid(file, Val(report_id_of(ev)), Val(user_email_of(ev)),
                               data_object(ev).id, ev.id, t, f)
         IN  Outcome(Delivery(r.code, sig, ev, {"verified", "completed"} \cup r.fx),
                     r.db, r.mail)

\* A faulty variant of stripe_webhook of the file service: a completed
\* checkout whose payment_status is not "paid" is processed as a paid one.
file_stripe_webhook_unpaid_too(file, sig, ev, t, f) ==
    IF sig # "valid" THEN Outcome(Delivery(400, sig, ev, {}), file, {})
    ELSE IF ev.type = None
         THEN Outcome(Delivery(500, sig, ev, {"verified", "keyerror"}), file, {})
    ELSE IF event_type(ev) # Completed
         THEN Outcome(Delivery(200, sig, ev, {"verified"}), file, {})
    ELSE IF ~HasObject(ev)
         THEN Outcome(Delivery(500, sig, ev, {"verified", "completed", "keyerror"}), file, {})
    ELSE IF report_id_of(ev) = None \/ user_email_of(ev) = None
         THEN Outcome(Delivery(200, sig, ev,
                               {"verified", "completed"} \cup
                               Fx([unpaid |-> data_object(ev).payment_status # "paid"])),
                      file, {})
    ELSE LET r == process_paid(file, Val(report_id_of(ev)), Val(user_email_of(ev)),
                               data_object(ev).id, ev.id, t, f)
         IN  Outcome(Delivery(r.code, sig, ev,
                              {"verified", "completed"} \cup r.fx \cup
                              Fx([unpaid |-> data_object(ev).payment_status # "paid"])),
                     r.db, r.mail)

file_stripe_webhook(file, sig, ev, t, f) ==
    IF sig # "valid" THEN Outcome(Delivery(400, sig, ev, {}), file, {})
    ELSE IF ev.type = None
         THEN Outcome(Delivery(500, sig, ev, {"verified", "keyerror"}), file, {})
    ELSE IF event_type(ev) # Completed
         THEN Outcome(Delivery(200, sig, ev, {"verified"}), file, {})
    ELSE IF ~HasObject(ev)
         THEN Outcome(Delivery(500, sig, ev, {"verified", "completed", "keyerror"}), file, {})
    ELSE IF data_object(ev).payment_status # "paid"
         THEN Outcome(Delivery(200, sig, ev, {"verified", "completed", "unpaid"}), file, {})
    ELSE IF report_id_of(ev) = None \/ user_email_of(ev) = None
         THEN Outcome(Delivery(200, sig, ev, {"verified", "completed"}), file, {})
    ELSE LET r == process_paid(file, Val(report_id_of(ev)), Val(user_email_of(ev)),
                               data_object(ev).id, ev.id, t, f)
         IN  Outcome(Delivery(r.code, sig, ev, {"verified", "completed"} \cup r.fx),
                     r.db, r.mail)

\* POST /create-checkout-session of the file service.  valid: the body
\* passes CheckoutRequest's validators; stripe_ok: Session.create returns.
file_create_checkout_session(file, report_id, valid, stripe_ok) ==
    LET Reply(code, fx) ==
            Outcome(Request("create_checkout_session", code, Some(report_id), fx), file, {})
    IN  IF ~valid THEN Reply(422, {})
        ELSE IF ~stripe_ok THEN Reply(502, {})
        ELSE Reply(200, {"session"})

\* -------------------------------------- plain service: POST /stripe/webhook
plain_stripe_webhook(sig, ev) ==
    IF ~endpoint_secret THEN Delivery(503, sig, ev, {})
    ELSE IF sig = "absent" THEN Delivery(400, sig, ev, {})
    ELSE IF sig = "invalid" THEN Delivery(400, sig, ev, {})
    ELSE Delivery(200, sig, ev, {"verified"})

\* ------------------------------------------------------------ the machine
Services == {"store", "file", "plain"}

\* The processes that serve the file service, and one that handles nothing.
Workers == {"w1", "w2"}
Idle == [pc |-> "idle"]

\* The options a service reads; the others are held set.
OptionsRead(service) ==
    CASE service = "store" -> EnvOptions
      [] service = "file" -> {"STRIPE_WEBHOOK_SECRET"}
      [] service = "plain" -> {"STRIPE_WEBHOOK_SECRET"}

Init ==
    /\ svc \in Services
    /\ env \in {c \in Configs : EnvOptions \ c \subseteq OptionsRead(svc)}
    /\ uuids = Uuids
    /\ STORE = EmptyDict
    /\ statusFile = EmptyDict
    /\ mailed = {}
    /\ last = NoRequest
    /\ backend = "memory"
    /\ table = EmptyDict
    /\ workers = [w \in Workers |-> Idle]

\* The delivery of ev repeats the previous request: that request was the
\* acknowledged delivery of a verdict notification for the same report, with
\* or without a recipient as ev, and the session id it recorded is ev's.
IsReplay(prev, db, sig, ev) ==
    /\ prev.op = "stripe_webhook" /\ prev.code = 200
    /\ "completed" \in prev.fx /\ "repair" \notin prev.fx
    /\ sig = "valid" /\ event_type(ev) = Completed /\ payment_type(ev) # "repair"
    /\ report_id_of(ev) # None /\ prev.rid = report_id_of(ev)
    /\ ("email" \in prev.fx) = (user_email_of(ev) # None)
    /\ Val(prev.rid) \in DOMAIN db
    /\ "stripe_session_id" \in DOMAIN db[Val(prev.rid)]
    /\ db[Val(prev.rid)].stripe_session_id = data_object(ev).id

\* The log entry of a request that took the stored data from before to after.
Effects(entry, before, after) ==
    [entry EXCEPT !.fx = @ \cup IF after # before THEN {"changed"} ELSE {}]

StoreStep(out) ==
    /\ STORE' = out.db
    /\ last' = Effects(out.last, STORE, out.db)
    /\ UNCHANGED <<svc, env, uuids, statusFile, mailed, others>>

FileStep(out) ==
    /\ statusFile' = out.db
    /\ mailed' = mailed \cup out.mail
    /\ last' = Effects(out.last, statusFile, out.db)
    /\ UNCHANGED <<svc, env, uuids, STORE, others>>


\* The inputs a delivery reads beyond signature and event: the clock and
\* the write fault are drawn only when the handler gets to the store.
StoreReached(sig, ev) ==
    sig = "valid" /\ event_type(ev) = Completed /\ report_id_of(ev) # None
FileReached(sig, ev) ==
    /\ sig = "valid" /\ event_type(ev) = Completed /\ HasObject(ev)
    /\ data_object(ev).payment_status = "paid"
    /\ report_id_of(ev) # None /\ user_email_of(ev) # None

Analyze ==
    /\ svc = "store"
    /\ \E report_id \in uuids, valid \in BOOLEAN, create_raises \in BOOLEAN :
          LET out == analyze(STORE, report_id, valid, create_raises)
          IN  /\ STORE' = out.db
              /\ last' = Effects(out.last, STORE, out.db)
              /\ uuids' = IF valid THEN uuids \ {report_id} ELSE uuids
              /\ UNCHANGED <<svc, env, statusFile, mailed, others>>

RunProduction ==
    /\ svc = "store"
    /\ \E report_id \in uuids, valid \in BOOLEAN, create_raises \in BOOLEAN :
          LET out == run_production(STORE, report_id, valid, create_raises)
          IN  /\ STORE' = out.db
              /\ last' = Effects(out.last, STORE, out.db)
              /\ uuids' = IF valid THEN uuids \ {report_id} ELSE uuids
              /\ UNCHANGED <<svc, env, statusFile, mailed, others>>

CreateCheckoutSession ==
    /\ svc = "store"
    /\ \E report_id \in ReportIds, stripe_ok \in BOOLEAN, has_url \in BOOLEAN :
          StoreStep(create_checkout_session(STORE, report_id, stripe_ok, has_url))

CreateRepairCheckoutSession ==
    /\ svc = "store"
    /\ \E report_id \in ReportIds, stripe_ok \in BOOLEAN, has_url \in BOOLEAN :
          StoreStep(create_repair_checkout_session(STORE, report_id, stripe_ok, has_url))

ReportStatus ==
    /\ svc = "store"
    /\ \E report_id \in ReportIds : StoreStep(report_status(STORE, report_id))

GetReport ==
    /\ svc = "store"
    /\ \E report_id \in ReportIds : StoreStep(get_report(STORE, report_id))

StripeWebhook ==
    /\ svc = "store"
    /\ \E sig \in Signatures, ev \in StoreEvents :
          \E t \in IF StoreReached(sig, ev) THEN Times ELSE {0},
             write_raises \in IF StoreReached(sig, ev) THEN BOOLEAN ELSE {FALSE} :
                LET out == stripe_webhook(STORE, sig, ev, t, write_raises)
                IN  /\ STORE' = out.db
                    /\ last' = [Effects(out.last, STORE, out.db)
                                    EXCEPT !.replay = IsReplay(last, STORE, sig, ev)]
                    /\ UNCHANGED <<svc, env, uuids, statusFile, mailed, others>>

FileCreateCheckoutSession ==
    /\ svc = "file"
    /\ \E report_id \in ReportIds, valid \in BOOLEAN, stripe_ok \in BOOLEAN :
          /\ FileStep(file_create_checkout_session(statusFile, report_id, valid, stripe_ok))

FileStripeWebhook ==
    /\ svc = "file"
    /\ \E sig \in Signatures, ev \in FileEvents :
          \E t \in IF FileReached(sig, ev) THEN Times ELSE {0},
             f \in IF FileReached(sig, ev) THEN FaultCases ELSE {NoFault} :
                /\ CanFail(statusFile, f)
                /\ FileStep(file_stripe_webhook(statusFile, sig, ev, t, f))

PlainStripeWebhook ==
    /\ svc = "plain"
    /\ \E sig \in Signatures, ev \in PlainEvents :
          /\ last' = plain_stripe_webhook(sig, ev)
          /\ UNCHANGED <<svc, env, uuids, STORE, statusFile, mailed, others>>

Next ==
    \/ Analyze
    \/ RunProduction
    \/ CreateCheckoutSession
    \/ CreateRepairCheckoutSession
    \/ ReportStatus
    \/ GetReport
    \/ StripeWebhook
    \/ FileCreateCheckoutSession
    \/ FileStripeWebhook
    \/ PlainStripeWebhook

Spec == Init /\ [][Next]_vars

\* ----------------------------------------------- the two ReportStore classes
\* A row of the BigQuery table has every column of the schema; a column
\* holds None (NULL) or a value.  json.dumps(v) is the text of v, not v.
Json(v) == [json |-> v]

Columns == {"report_id", "status", "paid_at", "stripe_session_id", "report_full",
            "repair_status", "repair_paid_at", "repair_stripe_session_id"}

\* BigQueryReportStore.create_report: status and repair_status default to
\* locked, the payment columns start NULL.
bq_create_report(rows, report) ==
    DictPut(rows, report.report_id,
            [c \in Columns |->
                CASE c = "report_id" -> Some(report.report_id)
                  [] c = "status" -> Some(StatusOf(report, "locked"))
                  [] c = "repair_status" ->
                        IF "repair_status" \in DOMAIN report
                        THEN Some(report.repair_status) ELSE Some("locked")
                  [] OTHER -> None])

\* The value an UPDATE sets a column to: a dict goes through json.dumps.
bq_param(k, v) == IF k = "report_full" THEN Json(v) ELSE v

\* BigQueryReportStore.update_report: UPDATE ... SET the named columns
\* WHERE report_id = @report_id; nothing is run for empty updates.
bq_update_report(rows, report_id, updates) ==
    IF DOMAIN updates = {} THEN rows
    ELSE [r \in DOMAIN rows |->
            IF r # report_id THEN rows[r]
            ELSE [c \in Columns |->
                    IF c \in DOMAIN updates THEN Some(bq_param(c, updates[c]))
                    ELSE rows[r][c]]]

\* BigQueryReportStore.get_report: dict(rows[0].items()), or None
bq_get_report(rows, report_id) ==
    IF report_id \in DOMAIN rows THEN Some(rows[report_id]) ELSE None

\* MemoryReportStore.get_report: self._db.get(report_id)
memory_get_report(db, report_id) == DictGet(db, report_id)

\* What the process finds at start: whether it runs on Cloud Run, whether
\* bigquery.Client() can be built and whether get_table reaches the table.
StartFacts == {"IS_CLOUD_RUN", "BQ_CLIENT", "BQ_TABLE"}
IS_CLOUD_RUN == "IS_CLOUD_RUN" \in env

\* BigQueryReportStore.__init__ returns (TRUE) or raises (FALSE).
BigQueryReportStore(facts) == "BQ_CLIENT" \in facts /\ "BQ_TABLE" \in facts

\* A faulty variant of _init_store: the fallback is taken on Cloud Run too.
_init_store_degrades(facts) ==
    IF BigQueryReportStore(facts) THEN "bigquery" ELSE "memory"

\* _init_store: the BigQuery store, else the in-memory store off Cloud Run,
\* else the exception is raised again and the import fails.
_init_store(facts) ==
    IF BigQueryReportStore(facts) THEN "bigquery"
    ELSE IF "IS_CLOUD_RUN" \in facts THEN "raised"
    ELSE "memory"

\* The updates the application hands to update_report for a report id.
UpdateSets(report_id) ==
    {EmptyDict}
    \cup {verdict_updates(report_id, sid, t) : sid \in SessionIds, t \in Times}
    \cup {repair_updates(report_id, sid, t) : sid \in SessionIds, t \in Times}

\* The log entry of a call on the store.
Call(op, report_id, keys, result) ==
    [op |-> op, rid |-> Some(report_id), keys |-> keys, result |-> result]

\* A MemoryReportStore (STORE) and a BigQueryReportStore (table) are given
\* the same calls; backend is the one _init_store handed to the application.
StoreCreate ==
    /\ backend # "raised"
    /\ \E report_id \in ReportIds \ DOMAIN STORE :
          LET report == [report_id |-> report_id, status |-> "locked"]
          IN  /\ STORE' = create_report(STORE, report)
              /\ table' = bq_create_report(table, report)
              /\ last' = Call("STORE.create_report", report_id, DOMAIN report,
                              Some(report_id))
    /\ UNCHANGED <<svc, env, uuids, statusFile, mailed, backend, workers>>

StoreUpdate ==
    /\ backend # "raised"
    /\ \E report_id \in ReportIds :
       \E updates \in UpdateSets(report_id) :
          /\ STORE' = update_report(STORE, report_id, updates)
          /\ table' = bq_update_report(table, report_id, updates)
          /\ last' = Call("STORE.update_report", report_id, DOMAIN updates, None)
    /\ UNCHANGED <<svc, env, uuids, statusFile, mailed, backend, workers>>

StoreGet ==
    /\ backend # "raised"
    /\ \E report_id \in ReportIds :
          last' = Call("STORE.get_report", report_id, {},
                       IF backend = "memory" THEN memory_get_report(STORE, report_id)
                       ELSE bq_get_report(table, report_id))
    /\ UNCHANGED <<svc, env, uuids, STORE, statusFile, mailed, backend, table, workers>>

StoreInit ==
    /\ svc = "store"
    /\ env \in {EnvOptions \cup facts : facts \in SUBSET StartFacts}
    /\ uuids = Uuids
    /\ STORE = EmptyDict
    /\ statusFile = EmptyDict
    /\ mailed = {}
    /\ last = NoRequest
    /\ backend = _init_store(env)
    /\ table = EmptyDict
    /\ workers = [w \in Workers |-> Idle]

StoreNext ==
    \/ StoreCreate
    \/ StoreUpdate
    \/ StoreGet

SpecStore == StoreInit /\ [][StoreNext]_vars

\* ------------------------------ the file service run by several processes
\* Within one process a handler runs in one piece: after "await
\* request.body()" it never yields.  Processes that share
\* data/reports_status.json interleave at every access to the file; each
\* action below is one stretch of the handler that holds one such access
\* (or the PDF and email calls).  Nothing fails here: the failures are the
\* business of Spec.
RaceEvents ==
    {ev \in FileEvents :
        /\ FileReached("valid", ev)
        /\ data_object(ev).id = "s1"}

\* The process w with its position and locals changed.
Move(w, pc, locals) ==
    [workers EXCEPT ![w] = DictUpdate(DictUpdate(@, locals), [pc |-> pc])]

\* The event is verified and interpreted: lines 696-729.
RaceReceive(w) ==
    /\ workers[w].pc = "idle"
    /\ \E ev \in RaceEvents :
          workers' = Move(w, "check",
                          [report_id |-> Val(report_id_of(ev)),
                           email |-> Val(user_email_of(ev)),
                           session_id |-> data_object(ev).id,
                           event_id |-> ev.id,
                           status |-> EmptyDict])
    /\ UNCHANGED <<svc, env, uuids, STORE, statusFile, mailed, last, backend, table>>

\* The idempotency check: status = _read_status(), record.get("sent").
RaceCheck(w) ==
    /\ workers[w].pc = "check"
    /\ LET status == _read_status(statusFile, FALSE)
       IN  IF Sent(RecordOf(status, workers[w].report_id))
           THEN workers' = [workers EXCEPT ![w] = Idle]
           ELSE workers' = Move(w, "mark_paid", [status |-> status])
    /\ UNCHANGED <<svc, env, uuids, STORE, statusFile, mailed, last, backend, table>>

\* "Mark paid": the status read by the check, with the record updated, is
\* written back.
RaceMarkPaid(w) ==
    /\ workers[w].pc = "mark_paid"
    /\ statusFile' = mark_paid(workers[w].status, workers[w].report_id, workers[w].email,
                               workers[w].session_id, workers[w].event_id, 0)
    /\ workers' = Move(w, "deliver", [status |-> EmptyDict])
    /\ UNCHANGED <<svc, env, uuids, STORE, mailed, last, backend, table>>

\* generate_pdf and send_report_email; either may fail, which ends the request.
RaceDeliver(w) ==
    /\ workers[w].pc = "deliver"
    /\ \E ok \in BOOLEAN :
          IF ok
          THEN /\ mailed' = mailed \cup {workers[w].report_id}
               /\ workers' = Move(w, "read_sent", [status |-> EmptyDict])
          ELSE /\ mailed' = mailed
               /\ workers' = [workers EXCEPT ![w] = Idle]
    /\ UNCHANGED <<svc, env, uuids, STORE, statusFile, last, backend, table>>

\* "Mark sent" reads the status file again ...
RaceReadSent(w) ==
    /\ workers[w].pc = "read_sent"
    /\ workers' = Move(w, "write_sent", [status |-> _read_status(statusFile, FALSE)])
    /\ UNCHANGED <<svc, env, uuids, STORE, statusFile, mailed, last, backend, table>>

\* ... and writes it back with sent = true.
RaceMarkSent(w) ==
    /\ workers[w].pc = "write_sent"
    /\ statusFile' = mark_sent(workers[w].status, workers[w].report_id, 0)
    /\ workers' = [workers EXCEPT ![w] = Idle]
    /\ UNCHANGED <<svc, env, uuids, STORE, mailed, last, backend, table>>

RaceInit ==
    /\ svc = "file"
    /\ env = EnvOptions
    /\ uuids = Uuids
    /\ STORE = EmptyDict
    /\ statusFile = EmptyDict
    /\ mailed = {}
    /\ last = NoRequest
    /\ backend = "memory"
    /\ table = EmptyDict
    /\ workers = [w \in Workers |-> Idle]

RaceNext ==
    \E w \in Workers :
        \/ RaceReceive(w)
        \/ RaceCheck(w)
        \/ RaceMarkPaid(w)
        \/ RaceDeliver(w)
        \/ RaceReadSent(w)
        \/ RaceMarkSent(w)

SpecRace == RaceInit /\ [][RaceNext]_vars

\* ----------------------------------------------------------- properties
Webhook == last.op = "stripe_webhook"
Named(r) == last.rid = Some(r)

\* The unlock axis of report r is terminal: status unlocked (store service),
\* paid = true (file service).
Unlocked(r) ==
    r \in DOMAIN STORE /\ StatusOf(STORE[r], "locked") = "unlocked"
IsPaid(r) ==
    r \in DOMAIN statusFile /\ Paid(statusFile[r])
HasFull(r) ==
    r \in DOMAIN STORE /\ "report_full" \in DOMAIN STORE[r]
\* The repair axis of report r is terminal: repair_status active.
RepairActive(r) ==
    r \in DOMAIN STORE /\ DictGet(STORE[r], "repair_status") = Some("active")
IsSent(r) ==
    r \in DOMAIN statusFile /\ Sent(statusFile[r])

\* C1: in the store service, a delivery that repeats the previous verified
\* checkout.session.completed notification changes nothing stored (status,
\* paid_at, stripe_session_id, report_full) and enqueues no email.
C1_ReplayAppliesNothing ==
    (svc = "store" /\ Webhook /\ last.replay)
        => last.fx \cap {"changed", "email"} = {}

\* C2: in the file service, a delivery for report r (one whose reads of the
\* status file succeed) sends no email when send_report_email has already
\* returned for r, and changes no field of r's record once that record has
\* sent = true.
C2_SentOnceAndFinal ==
    [][\A r \in ReportIds :
          (svc = "file" /\ last'.op = "stripe_webhook" /\ last'.rid = Some(r)
             /\ "readfail" \notin last'.fx)
            => /\ r \in mailed => "email" \notin last'.fx
               /\ (r \in DOMAIN statusFile /\ Sent(statusFile[r]))
                    => (r \in DOMAIN statusFile' /\ statusFile'[r] = statusFile[r])]_vars

\* C3: a delivery for a report whose unlock axis is already terminal (one
\* whose reads of the status file succeed) leaves the session id and event
\* id recorded for it as they are.
C3_ProvenanceWrittenOnce ==
    [][\A r \in ReportIds :
          (last'.op = "stripe_webhook" /\ last'.rid = Some(r)
             /\ "readfail" \notin last'.fx)
            => /\ Unlocked(r) =>
                    /\ r \in DOMAIN STORE'
                    /\ DictGet(STORE'[r], "stripe_session_id")
                         = DictGet(STORE[r], "stripe_session_id")
               /\ IsPaid(r) =>
                    /\ r \in DOMAIN statusFile'
                    /\ DictGet(statusFile'[r], "stripe_session_id")
                         = DictGet(statusFile[r], "stripe_session_id")
                    /\ DictGet(statusFile'[r], "last_event_id")
                         = DictGet(statusFile[r], "last_event_id")]_vars

\* C4 as stated: a delivery whose signature is absent or does not verify is
\* answered 400 and does nothing.
C4_UnverifiedAnswered400 ==
    (Webhook /\ last.sig # "valid") => (last.code = 400 /\ last.fx = {})

\* C4: a delivery whose signature is absent or does not verify does nothing
\* (no verification passed, no store change, no PDF, no email) and is
\* answered 400, or 503 by the store and plain handlers when the signing
\* secret is not configured; whatever a delivery does, it does after
\* construct_event has returned.
C4_UnverifiedDoesNothing ==
    Webhook =>
        /\ last.sig # "valid" =>
              /\ last.fx = {}
              /\ last.code = IF svc \in {"store", "plain"} /\ ~STRIPE_WEBHOOK_SECRET
                             THEN 503 ELSE 400
        /\ last.fx # {} => (last.sig = "valid" /\ "verified" \in last.fx)

\* An unverifiable delivery named the locked report r1 and was turned away.
C4_Witness ==
    /\ svc = "store" /\ Webhook /\ last.sig = "invalid" /\ last.code = 400
    /\ Named("r1") /\ "r1" \in DOMAIN STORE /\ ~Unlocked("r1")

\* C5: a create-checkout-session request for a report that is already
\* unlocked / paid is answered 409, creates no session at the processor and
\* changes nothing stored.  (Requests turned away for their body, 422, for
\* the configuration, 503, or by a failing processor, 502, are left aside.)
C5_NoCheckoutOnceUnlocked ==
    (/\ last.op = "create_checkout_session" /\ last.code \notin {422, 503, 502}
     /\ \E r \in ReportIds : Named(r) /\ (Unlocked(r) \/ IsPaid(r)))
        => (last.code = 409 /\ last.fx \cap {"session", "changed"} = {})

\* C6: a delivery that has written the payment transition is answered 200
\* and leaves the report unlocked / paid, whatever fails afterwards.
C6_NothingFailsAfterCommit ==
    \A r \in ReportIds :
        /\ (svc = "file" /\ Webhook /\ Named(r) /\ "pdf" \in last.fx)
              => (last.code = 200 /\ IsPaid(r))
        /\ (svc = "store" /\ Webhook /\ Named(r) /\ "completed" \in last.fx
              /\ last.fx \cap {"repair", "raised"} = {} /\ r \in DOMAIN STORE)
              => (last.code = 200 /\ Unlocked(r))

\* C7: a report of the store service has a report_full exactly when its
\* status is unlocked.
C7_FullIffUnlocked ==
    \A r \in DOMAIN STORE : HasFull(r) <=> Unlocked(r)

\* A report both payments were applied to: unlocked, with its full report,
\* and its repair axis active.
C7_Witness ==
    /\ Unlocked("r1") /\ HasFull("r1")
    /\ DictGet(STORE["r1"], "repair_status") = Some("active")

\* C8 as stated: after a verified, acknowledged checkout.session.completed
\* event naming an existing report, the report is unlocked and has its full
\* report.
C8_AnyCompletedEventUnlocks ==
    \A r \in DOMAIN STORE :
        (svc = "store" /\ Webhook /\ last.code = 200 /\ "completed" \in last.fx
            /\ Named(r))
            => (Unlocked(r) /\ HasFull(r))

\* C8: a report just created is locked and has no full report; a fetch
\* (GET /report, GET /report-status) shows paid exactly when the status is
\* unlocked and a full report only then; and after an acknowledged
\* checkout.session.completed event naming the report, of a type other than
\* repair, the report is unlocked with a full report, which the fetch shows.
C8_FetchShowsUnlock ==
    \A r \in DOMAIN STORE :
        /\ (last.op \in {"analyze", "run_production"} /\ last.code = 200 /\ Named(r))
              => (~Unlocked(r) /\ ~HasFull(r))
        /\ (last.op \in {"get_report", "report_status"} /\ last.code = 200 /\ Named(r))
              => /\ "paid" \in last.fx <=> Unlocked(r)
                 /\ "full" \in last.fx <=> (Unlocked(r) /\ HasFull(r))
                 /\ Unlocked(r) => "full" \in last.fx
        /\ (Webhook /\ last.code = 200 /\ "completed" \in last.fx
              /\ "repair" \notin last.fx /\ Named(r))
              => (Unlocked(r) /\ HasFull(r))

\* The report was fetched after its payment and shows paid and the full report.
C8_Witness ==
    /\ last.op = "get_report" /\ last.code = 200 /\ Named("r1")
    /\ {"paid", "full"} \subseteq last.fx

\* C9: a verified delivery of an event that has its type and data.object is
\* answered 200 whatever happens in it: unknown report id, missing metadata,
\* PDF failure, email failure, a status-file write failure after the payment
\* was written.  (The failure of the write that applies the payment
\* transition itself is left aside.)
C9_VerifiedAlways200 ==
    (/\ Webhook /\ "verified" \in last.fx /\ "keyerror" \notin last.fx
     /\ "raised" \in last.fx => "pdf" \in last.fx)
        => last.code = 200

\* C10: with the signing secret not configured, a delivery (here one whose
\* signature is absent or does not verify) is answered 503 and does nothing.
C10_NoSecretAnswered503 ==
    (Webhook /\ ~STRIPE_WEBHOOK_SECRET /\ last.sig # "valid")
        => (last.code = 503 /\ last.fx = {})

\* C11: no request takes an axis back: a report that is unlocked stays
\* unlocked, a repair that is active stays active, a record that is paid
\* stays paid and one that is sent stays sent.
C11_AxesMonotone ==
    [][\A r \in ReportIds :
          /\ Unlocked(r) => Unlocked(r)'
          /\ RepairActive(r) => RepairActive(r)'
          /\ IsPaid(r) => IsPaid(r)'
          /\ IsSent(r) => IsSent(r)']_vars

\* C12: a report whose repair axis is active is unlocked.
C12_RepairOnlyWhenUnlocked ==
    \A r \in DOMAIN STORE : RepairActive(r) => Unlocked(r)

\* The positions of a process that has passed the idempotency check.
PastCheck == {"mark_paid", "deliver", "read_sent", "write_sent"}

\* C13: two executions of the handler for the same report id are never both
\* past the idempotency check.
C13_OnePassesTheCheck ==
    \A w1, w2 \in Workers :
        (/\ w1 # w2
         /\ workers[w1].pc \in PastCheck /\ workers[w2].pc \in PastCheck)
            => workers[w1].report_id # workers[w2].report_id

\* The fields a record had before a call and that the call did not name are
\* still there with the same values.
Kept(before, after, keys) ==
    \A k \in (DOMAIN before) \ keys : k \in DOMAIN after /\ after[k] = before[k]

\* update_report(id, updates) on db is a merge.
Merged(db, after, report_id, keys) ==
    /\ DOMAIN after = DOMAIN db
    /\ \A r \in DOMAIN db :
          IF r = report_id THEN Kept(db[r], after[r], keys) ELSE after[r] = db[r]

\* C14: update_report(id, updates), of the in-memory store and of the
\* BigQuery store, keeps every field that updates does not name, leaves
\* every other record as it is and creates no record when id is absent.
C14_UpdateIsMerge ==
    [][last'.op = "STORE.update_report"
          => /\ Merged(STORE, STORE', Val(last'.rid), last'.keys)
             /\ Merged(table, table', Val(last'.rid), last'.keys)]_vars

\* An unlocked report with its repair paid as well: the second update left
\* the fields of the first in place.
C14_Witness ==
    /\ last.op = "STORE.update_report" /\ last.rid = Some("r1")
    /\ "repair_status" \in last.keys
    /\ Unlocked("r1") /\ HasFull("r1") /\ RepairActive("r1")
    /\ "r2" \in DOMAIN STORE

\* C17: _init_store raises, and no store serves any call, exactly when the
\* BigQuery store cannot be constructed (no client, or table unreachable)
\* on Cloud Run; it returns the in-memory store exactly when the BigQuery
\* store cannot be constructed off Cloud Run.
C17_InitStoreFailsClosed ==
    /\ backend = "raised" <=> (IS_CLOUD_RUN /\ ~BigQueryReportStore(env))
    /\ backend = "memory" <=> (~IS_CLOUD_RUN /\ ~BigQueryReportStore(env))
    /\ backend = "raised" =>
          (STORE = EmptyDict /\ table = EmptyDict /\ last = NoRequest)

\* On Cloud Run, with a client but no reachable table, the import failed.
C17_Witness ==
    /\ IS_CLOUD_RUN /\ "BQ_CLIENT" \in env /\ "BQ_TABLE" \notin env
    /\ backend = "raised"

\* The checkout endpoints of the store service and what each needs.
Checkouts == {"create_checkout_session", "create_repair_checkout_session"}
Configured(op) ==
    /\ STRIPE_SECRET_KEY /\ FRONTEND_URL
    /\ IF op = "create_checkout_session" THEN STRIPE_PRICE_ID ELSE STRIPE_REPAIR_PRICE_ID
PreState(op) == IF op = "create_checkout_session" THEN "locked" ELSE "unlocked"
StatusRead(op, report) ==
    StatusOf(report, IF op = "create_checkout_session" THEN "locked" ELSE "")

\* The answer of a checkout endpoint of the store service is 503 when its
\* configuration is incomplete, else 404 for an unknown report, else 409
\* for a report not in the pre-state, else 502 or 200.
CheckoutOrder ==
    (svc = "store" /\ last.op \in Checkouts) =>
        LET report_id == Val(last.rid)
        IN  IF ~Configured(last.op) THEN last.code = 503
            ELSE IF report_id \notin DOMAIN STORE THEN last.code = 404
            ELSE IF StatusRead(last.op, STORE[report_id]) # PreState(last.op)
                 THEN last.code = 409
            ELSE last.code \in {502, 200}

\* C15 as stated: the failures are classified in that order and none of
\* them creates a session at the processor or changes a record.
C15_NoSessionOnAnyFailure ==
    /\ CheckoutOrder
    /\ (svc = "store" /\ last.op \in Checkouts /\ last.code # 200)
          => last.fx \cap {"session", "changed"} = {}

\* C15: the failures are classified in that order, none of them changes a
\* record, and no session is created at the processor on 503, 404 and
\* 409; an answer of 502 comes either with no session (the processor call
\* failed) or with a session that has no URL.
C15_CheckoutFailureOrder ==
    /\ CheckoutOrder
    /\ (svc = "store" /\ last.op \in Checkouts) =>
          /\ "changed" \notin last.fx
          /\ last.code \in {503, 404, 409} => "session" \notin last.fx
          /\ last.code = 200 => "session" \in last.fx

\* The repair checkout was asked for a report still locked, with the whole
\* configuration in place, and was turned away.
C15_Witness ==
    /\ svc = "store" /\ last.op = "create_repair_checkout_session"
    /\ Configured(last.op) /\ Named("r1") /\ "r1" \in DOMAIN STORE
    /\ ~Unlocked("r1") /\ last.code = 409

\* C16: a repair checkout for a report whose repair is already active is
\* answered 409 and creates no session.  (Requests turned away for the
\* configuration, 503, or by a failing processor, 502, are left aside.)
C16_NoRepairCheckoutOnceActive ==
    (/\ last.op = "create_repair_checkout_session" /\ last.code \notin {503, 502}
     /\ \E r \in ReportIds : Named(r) /\ RepairActive(r))
        => (last.code = 409 /\ "session" \notin last.fx)

\* C18: in the store service, an acknowledged checkout.session.completed
\* event with no report id, or with the id of no existing report, changes
\* nothing stored and triggers no PDF and no email.
C18_UnknownReportHarmless ==
    (/\ svc = "store" /\ Webhook /\ last.code = 200 /\ "completed" \in last.fx
     /\ \A r \in DOMAIN STORE : ~Named(r))
        => last.fx \cap {"changed", "pdf", "email"} = {}

C20_DeliverableOnlyAfterCommit ==
    \A r \in ReportIds :
        (/\ Webhook /\ Named(r) /\ last.fx \cap {"pdf", "email"} # {}
         /\ "readfail" \notin last.fx)
            => (Unlocked(r) \/ IsPaid(r))

\* C21: in the file service, a delivery for a report whose record is paid
\* and not sent (its status-file writes succeeding) passes the idempotency
\* check, calls generate_pdf again and, when the PDF and the email succeed,
\* leaves the record with sent = true; it is answered 200.
C21_UnsentIsRetried ==
    \A r \in ReportIds :
        (/\ svc = "file" /\ Webhook /\ Named(r)
         /\ "retry" \in last.fx /\ "raised" \notin last.fx)
            => /\ last.code = 200
               /\ "pdf" \in last.fx
               /\ "email" \in last.fx => IsSent(r)

\* A delivery found r1 paid and not sent, sent the email and marked it sent.
C21_Witness ==
    /\ svc = "file" /\ Webhook /\ Named("r1")
    /\ {"retry", "pdf", "email"} \subseteq last.fx
    /\ IsPaid("r1") /\ IsSent("r1")

\* C22: in the file service, a record that is sent is paid, and a record
\* becomes sent only in a delivery in which generate_pdf and
\* send_report_email returned for it.
C22_SentImpliesPaid ==
    [][\A r \in ReportIds :
          /\ IsSent(r)' => IsPaid(r)'
          /\ (~IsSent(r) /\ IsSent(r)')
                => (/\ last'.op = "stripe_webhook" /\ last'.rid = Some(r)
                    /\ {"pdf", "email"} \subseteq last'.fx)]_vars

\* C23: a verified event with a type other than checkout.session.completed
\* is answered 200 and nothing else is done with it: no record changes, no
\* PDF, no email.  (The file handler answers 500 to an event that has no
\* type at all; the other two treat it as type "unknown".)
C23_OtherEventsIgnored ==
    (/\ Webhook /\ "verified" \in last.fx
     /\ "completed" \notin last.fx /\ "keyerror" \notin last.fx)
        => (last.code = 200 /\ last.fx = {"verified"})

\* The file service, holding a paid record, acknowledged another event.
C23_Witness ==
    /\ svc = "file" /\ Webhook /\ last.code = 200 /\ last.fx = {"verified"}
    /\ IsPaid("r1")

\* The requests of the store service that read the store and those that
\* create a report.
Readers == Checkouts \cup {"get_report", "report_status"}
Creators == {"analyze", "run_production"}

AgreeOn(record, row, c) == DictGet(record, c) = row[c]

\* C25: after the same calls, get_report of the in-memory store and of the
\* BigQuery store return, for every id, nothing both or records that agree
\* on every field.
C25_StoresAgree ==
    \A r \in ReportIds :
        LET m == memory_get_report(STORE, r)
            b == bq_get_report(table, r)
        IN  /\ m = None <=> b = None
            /\ m # None => \A c \in Columns : AgreeOn(Val(m), Val(b), c)

\* C26: in the file service, a verified checkout.session.completed event
\* whose payment_status is not "paid" is answered 200 and does nothing
\* else: the status file is as it was, no PDF is generated and no email
\* is sent.
C26_UnpaidNeverMarksPaid ==
    [][(svc = "file" /\ last'.op = "stripe_webhook" /\ "unpaid" \in last'.fx)
          => /\ last'.code = 200
             /\ statusFile' = statusFile
             /\ mailed' = mailed
             /\ last'.fx \cap {"changed", "paid", "pdf", "email"} = {}]_vars

\* An unpaid completed checkout for r1 was acknowledged and r1 is not paid.
C26_Witness ==
    /\ svc = "file" /\ Webhook /\ Named("r1")
    /\ "unpaid" \in last.fx /\ last.code = 200
    /\ ~IsPaid("r1")

\* C27: in the file service, with two handler executions sharing the
\* status file, a write step of the execution for one report leaves the
\* record of every other report in the file as it was.
C27_OtherRecordsKept ==
    [][\A w \in Workers :
          (workers[w].pc \in {"mark_paid", "write_sent"} /\ workers'[w] # workers[w])
              => \A r \in DOMAIN statusFile :
                    r # workers[w].report_id
                        => (r \in DOMAIN statusFile' /\ statusFile'[r] = statusFile[r])]_vars

=============================================================================
